---- MODULE Spec2Model ----
(***************************************************************************)
(* Model of the "Dynamic Request Module" (request.h) in HTTP mode, with    *)
(* the Transport (the Arduino NETWORK_CLIENT behind the network.h macros)  *)
(* as its environment.                                                     *)
(*                                                                         *)
(* Strings are sequences of one-character strings, so that formatting,     *)
(* capturing and parsing act on bytes as the code does.                    *)
(***************************************************************************)
EXTENDS Integers, Sequences, FiniteSets, TLC

VARIABLES
    pc,          \* position of the single thread: "idle", "wait", "read", "done"
    _wait,       \* request.h:161, the global wait counter
    client,      \* the Transport and what the current call did on it:
                 \* [conn, peerOpen, rx, pending, out, connects, reads, stops, log]
    header_str,  \* request.h:216-217, the captured bytes (header_str_i is its length)
    ret,         \* the value the current http_request call returned
    args,        \* the arguments of the current call: [data, method]
    stream,      \* the bytes the peer answers the current call with
    connectOk,   \* what NETWORK_CONNECT returned in the current call
    timedOut,    \* the wait phase of the current call ended by timeout
    idleAtRead,  \* the first read-phase poll found the Transport connected, no byte
    byteAtRead,  \* the first read-phase poll found a byte available
    readRan,     \* the read-phase loop condition was evaluated in the current call
    polls,       \* passes through the body of the wait loop in the current call
    gapReads,    \* bytes read when the read loop first found the Transport
                 \* connected with no byte, -1 while it has not
    fin,         \* arguments of the formatting alone:
                 \* [data, method, base_url, path, additional_headers]
    fout,        \* the request formatted from fin, <<>> before it is formatted
    mpc,         \* MQTT mode: position of the sketch's thread
    where,       \* MQTT mode: the macro being expanded, "setup" or "loop"
    pubsub,      \* MQTT mode: the PubSubClient and what the current macro did on it
    is_ok,       \* MQTT mode: what the last REQUEST_SEND yielded
    mdata        \* MQTT mode: the data of the last REQUEST_SEND

vars == <<pc, _wait, client, header_str, ret, args, stream, connectOk,
          timedOut, idleAtRead, byteAtRead, readRan, polls, gapReads, fin, fout,
          mpc, where, pubsub, is_ok, mdata>>

mqttVars == <<mpc, where, pubsub, is_ok, mdata>>

httpVars == <<pc, _wait, client, header_str, ret, args, stream, connectOk,
              timedOut, idleAtRead, byteAtRead, readRan, polls, gapReads>>

----------------------------------------------------------------------------
(* Program constants and configuration *)

_HEADER_LEN == 49

\* The configuration macro REQUEST_REPLY_WAIT (default 100); the model is
\* configured with a small budget, as a sketch may do before the include.
REQUEST_REPLY_WAIT == 2

\* Longest run of arbitrary bytes that follows the first line of a response.
MaxTail == 1

\* Longest generated request body (longer fixed bodies are added to these).
MaxBody == 2

----------------------------------------------------------------------------
(* Byte strings *)

Pad(n) == [i \in 1..n |-> "x"]

GET == <<"G", "E", "T">>
POST == <<"P", "O", "S", "T">>
PUT == <<"P", "U", "T">>
LowerGet == <<"g", "e", "t">>
HttpVersionLine == <<" ", "H", "T", "T", "P", "/", "1", ".", "1", "\n">>
HostPrefix == <<"H", "o", "s", "t", ":", " ">>
ContentLengthPrefix ==
    <<"C", "o", "n", "t", "e", "n", "t", "-", "L", "e", "n", "g", "t", "h", ":", " ">>
CRLF == <<"\r", "\n">>

\* A configuration: REQUEST_URL, "/" + REQUEST_PATH and REQUEST_HEADERS.
REQUEST_URL == <<"h", ".", "i", "o">>
SlashPath == <<"/", "p">>
REQUEST_HEADERS == <<"A", ":", " ", "b">>

Digits == <<"0", "1", "2", "3", "4", "5", "6", "7", "8", "9">>

IsDigit(c) == \E i \in 1..10 : Digits[i] = c

DigitVal(c) == (CHOOSE i \in 1..10 : Digits[i] = c) - 1

IsSpace(c) == c \in {" ", "\t", "\n", "\r"}

\* String::concat(unsigned int): the decimal digits of n.
RECURSIVE Dec(_)
Dec(n) == IF n < 10 THEN <<Digits[n + 1]>> ELSE Dec(n \div 10) \o <<Digits[(n % 10) + 1]>>

\* String::indexOf(" "): the 0-based index of the first c, -1 when there is none.
RECURSIVE IndexFrom(_, _, _)
IndexFrom(s, c, i) ==
    IF i > Len(s) THEN -1
    ELSE IF s[i] = c THEN i - 1
    ELSE IndexFrom(s, c, i + 1)

indexOf(s, c) == IndexFrom(s, c, 1)

\* String::substring(left, right), 0-based, right exclusive.
substring(s, left, right) ==
    LET l == IF left > right THEN right ELSE left
        r0 == IF left > right THEN left ELSE right
        r == IF r0 > Len(s) THEN Len(s) ELSE r0
    IN  IF l >= Len(s) THEN <<>> ELSE SubSeq(s, l + 1, r)

\* String::toInt is atol: leading white space, an optional sign, then digits.
\* The digit runs of the inputs below have at most three digits, so neither
\* the long of atol nor the int of possible_code reaches its width.
RECURSIVE SkipSpace(_)
SkipSpace(s) == IF s # <<>> /\ IsSpace(Head(s)) THEN SkipSpace(Tail(s)) ELSE s

RECURSIVE AccDigits(_, _)
AccDigits(s, acc) ==
    IF s # <<>> /\ IsDigit(Head(s)) THEN AccDigits(Tail(s), 10 * acc + DigitVal(Head(s)))
    ELSE acc

toInt(str) ==
    LET s == SkipSpace(str)
    IN  IF s = <<>> THEN 0
        ELSE IF Head(s) = "-" THEN 0 - AccDigits(Tail(s), 0)
        ELSE IF Head(s) = "+" THEN AccDigits(Tail(s), 0)
        ELSE AccDigits(s, 0)

----------------------------------------------------------------------------
(* http_request: formatting the request (request.h:173-198) *)

\* Mutant: every method is taken as not GET.
NotGetAlways(method) == TRUE

\* request.h:173
not_get(method) == method # GET

\* "<METHOD> <path>[?<data>] HTTP/1.1\n"
RequestLine(data, method, path) ==
    method \o (<<" ">> \o path)
           \o (IF not_get(method) THEN <<>> ELSE <<"?">> \o data)
           \o HttpVersionLine

HostLine(base_url) == HostPrefix \o base_url \o <<"\n">>

\* Mutant: the length counts the newline written before the body.
ContentLengthWithNewline(data) ==
    ContentLengthPrefix \o Dec(Len(data) + 1) \o <<"\n">>

\* request.h:186-190
ContentLengthLine(data) == ContentLengthPrefix \o Dec(Len(data)) \o <<"\n">>

BodySegment(data) == <<"\n">> \o data

FormatRequest(data, method, base_url, path, additional_headers) ==
    RequestLine(data, method, path)
        \o HostLine(base_url)
        \o (IF not_get(method) THEN ContentLengthLine(data) ELSE <<>>)
        \o (IF additional_headers # <<>> THEN additional_headers ELSE <<>>)
        \o (IF not_get(method) THEN BodySegment(data) ELSE <<>>)

\* Mutant: the request is written with print, nothing is appended.
PrintOnly(request) == request

\* Print::println(request): the request followed by "\r\n".
println(request) == request \o CRLF

----------------------------------------------------------------------------
(* http_request: parsing the captured header (request.h:240-252) *)

\* const byte first_space = header.indexOf(" "): the int is stored in 8 bits.
first_space(header) == indexOf(header, " ") % 256

\* Mutant: only the -1 of indexOf is tested, as if first_space were an int.
SpaceNotFoundSigned(fs) == fs = -1

\* request.h:241
SpaceNotFound(fs) == fs = -1 \/ fs > _HEADER_LEN

\* Mutant: the token before the first space is never tried as the code.
CodeBeforeSpaceSkipped(header, fs) == 0

\* request.h:244: "{xxx} WORD"
CodeBeforeSpace(header, fs) == toInt(substring(header, 0, fs))

\* Mutant: a window of two characters after the first space.
CodeAfterSpaceShort(header, fs) == toInt(substring(header, fs + 1, fs + 1 + 2))

\* request.h:247-248: "HTTP/y {xxx} WORD"
CodeAfterSpace(header, fs) == toInt(substring(header, fs + 1, fs + 1 + 3))

ParseStatus(header) ==
    LET fs == first_space(header)
    IN  IF SpaceNotFound(fs) THEN 0
        ELSE LET possible_code == CodeBeforeSpace(header, fs)
             IN  IF possible_code = 0
                 THEN CodeAfterSpace(header, fs)
                 ELSE possible_code

\* Mutant: every byte read is stored.
CaptureUnbounded(buf, c) == Append(buf, c)

\* Mutant: the buffer is taken as full one byte early.
CaptureOneLess(buf, c) == IF Len(buf) < _HEADER_LEN - 1 THEN Append(buf, c) ELSE buf

\* request.h:221-222: a byte read is stored while the buffer has room.
Capture(buf, c) == IF Len(buf) < _HEADER_LEN THEN Append(buf, c) ELSE buf

\* Mutant: the comparison is made after one more pass.
WaitExpiredLate(w) == w > REQUEST_REPLY_WAIT + 1

\* request.h:208: `_wait++ > REQUEST_REPLY_WAIT`, then `_wait = 0` on timeout.
WaitExpired(w) == w > REQUEST_REPLY_WAIT

WaitStep(w) ==
    IF WaitExpired(w) THEN [wait |-> 0, expired |-> TRUE]
    ELSE [wait |-> w + 1, expired |-> FALSE]

----------------------------------------------------------------------------
(* The Transport: NETWORK_CLIENT behind the macros of network.h:153-156 *)

FreshClient ==
    [conn |-> FALSE, peerOpen |-> FALSE, rx |-> <<>>, pending |-> <<>>,
     out |-> <<>>, connects |-> 0, reads |-> 0, stops |-> 0, log |-> <<>>]

\* client.connect(host, port) returning ok; on success the peer will send s.
NETWORK_CONNECT(c, ok, s) ==
    [c EXCEPT !.conn = ok, !.peerOpen = ok, !.pending = IF ok THEN s ELSE <<>>,
              !.connects = @ + 1, !.log = Append(@, "connect")]

\* client.connected(): open, and the peer is there or unread bytes remain.
NETWORK_CONNECTED(c) == c.conn /\ (c.peerOpen \/ c.rx # <<>>)

\* client.stop(): closes the socket and drops what was not read.
NETWORK_STOP(c) ==
    [c EXCEPT !.conn = FALSE, !.rx = <<>>, !.pending = <<>>, !.stops = @ + 1,
              !.log = Append(@, "stop")]

available(c) == IF c.conn THEN Len(c.rx) ELSE 0

\* client.read(): takes the first unread byte.
read(c) == [c EXCEPT !.rx = Tail(@), !.reads = @ + 1, !.log = Append(@, "read")]

\* Mutant: the bytes are written a second time.
writeTwice(c, bytes) ==
    [c EXCEPT !.out = Append(Append(@, bytes), bytes),
              !.log = Append(Append(@, "write"), "write")]

write(c, bytes) == [c EXCEPT !.out = Append(@, bytes), !.log = Append(@, "write")]

----------------------------------------------------------------------------
(* MQTT mode: the PubSubClient behind REQUEST_INIT (request.h:266-267) *)

\* delay(1000) of REQUEST_SETUP, in ms.
RetryDelayMs == 1000

\* Failed connects, and drops of the connection by the broker, within one
\* expansion of REQUEST_SETUP.
MaxFails == 2
MaxDrops == 1

\* REQUEST_PATH, the topic.
REQUEST_PATH == <<"p">>

FreshPubSub ==
    [connected |-> FALSE, server |-> FALSE, attempts |-> 0, oks |-> 0,
     fails |-> 0, drops |-> 0, slept |-> 0, attemptedConnected |-> FALSE,
     sawConnected |-> FALSE, loops |-> 0, published |-> <<>>,
     lastPublish |-> FALSE]

\* The counters of a PubSubClient at the start of a macro expansion.
AtMacroStart(p) ==
    [FreshPubSub EXCEPT !.connected = p.connected, !.server = p.server]

\* client.setServer(REQUEST_URL, REQUEST_PORT)
setServer(p) == [p EXCEPT !.server = TRUE]

\* client.connect(id, user, pass) returning ok.
connect(p, ok) ==
    [p EXCEPT !.connected = ok, !.attempts = @ + 1,
              !.oks = IF ok THEN @ + 1 ELSE @,
              !.fails = IF ok THEN @ ELSE @ + 1,
              !.attemptedConnected = @ \/ p.connected]

\* delay(ms)
delay(p, ms) == [p EXCEPT !.slept = @ + ms]

\* client.publish(topic, payload) returning ok.
publish(p, topic, payload, ok) ==
    [p EXCEPT !.published = Append(@, [topic |-> topic, payload |-> payload]),
              !.lastPublish = ok]

\* client.loop()
loop(p) == [p EXCEPT !.loops = @ + 1]

----------------------------------------------------------------------------
(* Inputs *)

\* All byte strings over chars of length at most n.
SeqsUpTo(chars, n) == UNION {[1..k -> chars] : k \in 0..n}

Ok200Line == <<"2", "0", "0", " ", "O", "K", "\n">>
NotFoundLine ==
    <<"H", "T", "T", "P", "/", "1", ".", "1", " ", "4", "0", "4", " ",
      "N", "o", "t", " ", "F", "o", "u", "n", "d", "\n">>
NegativeLine == <<"-", "7", " ", "O", "K", "\n">>
ZeroCodeLine == <<"0", "0", "0", " ", "1", "2", "3", "\n">>
NoSpaceLine == <<"4", "0", "4", "\n">>

Tails == SeqsUpTo({"3", " ", "\n"}, MaxTail)

\* What a peer may answer one request with.
Responses ==
    {Ok200Line \o t : t \in Tails}
        \cup {NotFoundLine \o t : t \in Tails}
        \cup {<<>>, NegativeLine, ZeroCodeLine, NoSpaceLine,
              Pad(_HEADER_LEN) \o Ok200Line,
              Pad(_HEADER_LEN - 3) \o <<" ">> \o Ok200Line}

\* The calls REQUEST_SEND(client, data) makes under a GET and a POST configuration.
Requests == {[data |-> <<"a", "=", "1">>, method |-> m] : m \in {GET, POST}}

Bodies == SeqsUpTo({"a", "=", "\n"}, MaxBody) \cup {Pad(10), Pad(9 + MaxBody)}

FormatInputs ==
    [data : Bodies, method : {GET, POST, PUT, LowerGet}, base_url : {REQUEST_URL},
     path : {SlashPath, <<"/">>},
     additional_headers : {<<>>, REQUEST_HEADERS,
                           REQUEST_HEADERS \o <<"\n">> \o <<"C", ":", "d">>}]

----------------------------------------------------------------------------
(* State machine *)

Init ==
    /\ pc = "idle"
    /\ _wait = 0
    /\ client = FreshClient
    /\ header_str = <<>>
    /\ ret = 0
    /\ args = [data |-> <<>>, method |-> GET]
    /\ stream = <<>>
    /\ connectOk = FALSE
    /\ timedOut = FALSE
    /\ idleAtRead = FALSE
    /\ byteAtRead = FALSE
    /\ readRan = FALSE
    /\ polls = 0
    /\ gapReads = -1
    /\ fin = [data |-> <<>>, method |-> GET, base_url |-> REQUEST_URL,
              path |-> SlashPath, additional_headers |-> <<>>]
    /\ fout = <<>>
    /\ mpc = "start"
    /\ where = "setup"
    /\ pubsub = FreshPubSub
    /\ is_ok = FALSE
    /\ mdata = <<>>

\* Mutant: the result of connect is not looked at.
ConnectFailedIgnored(ok) == FALSE

\* request.h:176-177: `if (!NETWORK_CONNECT(...)) return 0;`
ConnectFailed(ok) == ~ok

\* http_request from its entry to the first poll of the wait loop
\* (request.h:173-205), called as REQUEST_SEND does (request.h:258-261).
Call ==
    /\ pc \in {"idle", "done"}
    /\ \E a \in Requests, ok \in BOOLEAN, s \in Responses :
          LET c0 == NETWORK_CONNECT(FreshClient, ok, s)
              request == FormatRequest(a.data, a.method, REQUEST_URL, SlashPath,
                                       REQUEST_HEADERS)
          IN  /\ args' = a
              /\ connectOk' = ok
              /\ stream' = IF ok THEN s ELSE <<>>
              /\ IF ConnectFailed(ok)
                 THEN /\ client' = c0
                      /\ pc' = "done"
                 ELSE /\ client' = write(c0, println(request))
                      /\ pc' = "wait"
    /\ ret' = 0
    /\ header_str' = <<>>
    /\ timedOut' = FALSE
    /\ idleAtRead' = FALSE
    /\ byteAtRead' = FALSE
    /\ readRan' = FALSE
    /\ polls' = 0
    /\ gapReads' = -1
    /\ UNCHANGED <<_wait, fin, fout, mqttVars>>

\* One evaluation of the wait loop (request.h:206-213).
WaitPoll ==
    /\ pc = "wait"
    /\ IF available(client) = 0
       THEN LET w == WaitStep(_wait)
            IN  /\ _wait' = w.wait
                /\ timedOut' = w.expired
                /\ pc' = IF w.expired THEN "read" ELSE "wait"
                /\ polls' = polls + 1
       ELSE /\ pc' = "read"
            /\ UNCHANGED <<_wait, timedOut, polls>>
    /\ UNCHANGED <<client, header_str, ret, args, stream, connectOk, idleAtRead,
                   byteAtRead, readRan, gapReads, fin, fout, mqttVars>>

\* Mutant: an idle gap does not close the Transport.
IdleGapIgnored(c) == c

\* request.h:228: no byte while connected closes the Transport.
IdleGap(c) == NETWORK_STOP(c)

\* Mutant: no close after the read loop.
TerminateSkipped(c) == c

\* Mutant: the close after the read loop is made only on an open Transport.
TerminateIfOpen(c) == IF c.conn THEN NETWORK_STOP(c) ELSE c

\* request.h:231: the close after the read loop.
Terminate(c) == NETWORK_STOP(c)

\* One evaluation of the read loop (request.h:218-229) and, when the loop
\* ends, the rest of http_request (request.h:230-252).
ReadPoll ==
    /\ pc = "read"
    /\ readRan' = TRUE
    /\ byteAtRead' = IF readRan THEN byteAtRead ELSE available(client) # 0
    /\ IF NETWORK_CONNECTED(client)
       THEN /\ IF available(client) # 0
               THEN /\ client' = read(client)
                    /\ header_str' = Capture(header_str, Head(client.rx))
               ELSE /\ client' = IdleGap(client)
                    /\ UNCHANGED header_str
            /\ idleAtRead' = IF readRan THEN idleAtRead ELSE available(client) = 0
            /\ gapReads' = IF gapReads = -1 /\ available(client) = 0
                           THEN client.reads ELSE gapReads
            /\ UNCHANGED <<pc, ret>>
       ELSE /\ client' = Terminate(client)
            /\ ret' = ParseStatus(header_str)
            /\ pc' = "done"
            /\ UNCHANGED <<header_str, idleAtRead, gapReads>>
    /\ UNCHANGED <<_wait, args, stream, connectOk, timedOut, polls, fin, fout,
                   mqttVars>>

\* The network delivers the next byte of the peer's answer.
Deliver ==
    /\ pc \in {"wait", "read"}
    /\ client.conn
    /\ client.pending # <<>>
    /\ client' = [client EXCEPT !.rx = Append(@, Head(client.pending)),
                                !.pending = Tail(@)]
    /\ UNCHANGED <<pc, _wait, header_str, ret, args, stream, connectOk, timedOut,
                   idleAtRead, byteAtRead, readRan, polls, gapReads, fin, fout,
                   mqttVars>>

\* The peer closes its end; what it has not sent yet never arrives.
PeerClose ==
    /\ pc \in {"wait", "read"}
    /\ client.conn
    /\ client.peerOpen
    /\ client' = [client EXCEPT !.peerOpen = FALSE, !.pending = <<>>]
    /\ UNCHANGED <<pc, _wait, header_str, ret, args, stream, connectOk, timedOut,
                   idleAtRead, byteAtRead, readRan, polls, gapReads, fin, fout,
                   mqttVars>>

Next == Call \/ WaitPoll \/ ReadPoll \/ Deliver \/ PeerClose

Spec == Init /\ [][Next]_vars

----------------------------------------------------------------------------
(* The formatting alone, over a larger set of arguments *)

InitFormat ==
    /\ Init!1 /\ Init!2 /\ Init!3 /\ Init!4 /\ Init!5 /\ Init!6 /\ Init!7
    /\ Init!8 /\ Init!9 /\ Init!10 /\ Init!11 /\ Init!12 /\ Init!13 /\ Init!14
    /\ Init!17 /\ Init!18 /\ Init!19 /\ Init!20 /\ Init!21
    /\ fin \in FormatInputs
    /\ fout = <<>>

Format ==
    /\ fout = <<>>
    /\ fout' = FormatRequest(fin.data, fin.method, fin.base_url, fin.path,
                             fin.additional_headers)
    /\ UNCHANGED <<fin, httpVars, mqttVars>>

NextFormat == Format

SpecFormat == InitFormat /\ [][NextFormat]_vars

----------------------------------------------------------------------------
(* MQTT mode: REQUEST_SETUP, REQUEST_LOOP and REQUEST_SEND, called as the
   sketch of request.h:91-110 calls them *)

MqttPayloads == {<<"a">>, <<"4", "2">>, <<>>}

\* setup(): REQUEST_SETUP starts with setServer (request.h:269).
SetupBegin ==
    /\ mpc = "start"
    /\ pubsub' = setServer(AtMacroStart(pubsub))
    /\ where' = "setup"
    /\ mpc' = "cond"
    /\ UNCHANGED <<is_ok, mdata, fin, fout, httpVars>>

\* Mutant: a failed connect is retried at once.
AfterFailedConnectNoDelay == "cond"

\* request.h:273-277: the else branch ends in delay(1000).
AfterFailedConnect == "delay"

\* Mutant: the loop is left after the first attempt, failed or not.
RetryWhileOnce(p) == p.attempts = 0

\* Mutant: the body runs once before the condition is looked at.
RetryWhileDo(p) == ~p.connected \/ p.attempts = 0

\* request.h:270: `while (!client.connected())`
RetryWhile(p) == ~p.connected

\* One evaluation of the retry loop of REQUEST_SETUP (request.h:270-272):
\* the condition and, when it holds, the connect attempt.
SetupPoll ==
    /\ mpc = "cond"
    /\ IF RetryWhile(pubsub)
       THEN \E ok \in BOOLEAN :
               /\ ~ok => pubsub.fails < MaxFails
               /\ pubsub' = connect(pubsub, ok)
               /\ mpc' = IF ok THEN "cond" ELSE AfterFailedConnect
       ELSE /\ pubsub' = [pubsub EXCEPT !.sawConnected = pubsub.connected]
            /\ mpc' = IF where = "setup" THEN "ready" ELSE "maintain"
    /\ UNCHANGED <<where, is_ok, mdata, fin, fout, httpVars>>

\* request.h:274-276: the state is printed and the thread sleeps.
SetupDelay ==
    /\ mpc = "delay"
    /\ pubsub' = delay(pubsub, RetryDelayMs)
    /\ mpc' = "cond"
    /\ UNCHANGED <<where, is_ok, mdata, fin, fout, httpVars>>

\* loop(): REQUEST_LOOP starts with REQUEST_SETUP (request.h:278-279).
LoopBegin ==
    /\ mpc \in {"ready", "sent"}
    /\ pubsub' = setServer(AtMacroStart(pubsub))
    /\ where' = "loop"
    /\ mpc' = "cond"
    /\ UNCHANGED <<is_ok, mdata, fin, fout, httpVars>>

\* request.h:280: client.loop() after the retry loop.
Maintain ==
    /\ mpc = "maintain"
    /\ pubsub' = loop(pubsub)
    /\ mpc' = "send"
    /\ UNCHANGED <<where, is_ok, mdata, fin, fout, httpVars>>

\* Mutant: a failed publish is made again.
PublishRetried(p, payload, ok) ==
    IF ok THEN publish(p, REQUEST_PATH, payload, ok)
    ELSE publish(publish(p, REQUEST_PATH, payload, ok), REQUEST_PATH, payload, ok)

\* request.h:281-282: client.publish(REQUEST_PATH, data.c_str())
PublishOnce(p, payload, ok) == publish(p, REQUEST_PATH, payload, ok)

\* `const bool is_ok = REQUEST_SEND(request, data);` (request.h:104, 281-284)
Send ==
    /\ mpc = "send"
    /\ \E data \in MqttPayloads, ok \in BOOLEAN :
          /\ ok => pubsub.connected
          /\ pubsub' = PublishOnce(AtMacroStart(pubsub), data, ok)
          /\ is_ok' = ok
          /\ mdata' = data
    /\ where' = "send"
    /\ mpc' = "sent"
    /\ UNCHANGED <<fin, fout, httpVars>>

\* The broker, or the network, drops the connection.
BrokerDrop ==
    /\ mpc # "start"
    /\ pubsub.connected
    /\ pubsub.drops < MaxDrops
    /\ pubsub' = [pubsub EXCEPT !.connected = FALSE, !.drops = @ + 1]
    /\ UNCHANGED <<mpc, where, is_ok, mdata, fin, fout, httpVars>>

NextMqtt == SetupBegin \/ SetupPoll \/ SetupDelay \/ LoopBegin \/ Maintain
                \/ Send \/ BrokerDrop

SpecMqtt == Init /\ [][NextMqtt]_vars

----------------------------------------------------------------------------
(* Claims *)

Returned == pc = "done"

StartsWith(s, p) == Len(s) >= Len(p) /\ SubSeq(s, 1, Len(p)) = p

\* C1: a call in which connect returned false returns 0 (REQUEST_SEND yields
\* false) and has made no write, no read and no close on the Transport.
C1_FailedConnectDoesNothing ==
    (Returned /\ ~connectOk) =>
        /\ ret = 0
        /\ (0 # ret) = FALSE
        /\ client.out = <<>>
        /\ client.reads = 0
        /\ client.stops = 0

C1_Witness == Returned /\ ~connectOk /\ client.connects = 1

\* C2: whenever a call in which connect succeeded has returned, stop has been
\* called and the Transport is not connected, whatever was received.
C2_ClosedAtReturn ==
    (Returned /\ connectOk) =>
        /\ client.stops >= 1
        /\ ~client.conn
        /\ ~NETWORK_CONNECTED(client)

\* A return with a status code after the peer closed: the loop made no stop.
C2_Witness == Returned /\ connectOk /\ ret = 200 /\ client.stops = 1

\* C3 as stated: after a timed-out wait the read phase runs and NETWORK_STOP
\* is invoked exactly once in the call.
C3_StopExactlyOnce ==
    (Returned /\ connectOk /\ timedOut) => (readRan /\ client.stops = 1)

\* C3 amended: after a timed-out wait the read phase runs and NETWORK_STOP is
\* invoked once after the read loop and at most once more inside it, twice in
\* all when the loop finds the Transport connected with no byte; the
\* Transport is closed at return.
C3_StopOnceOrTwice ==
    (Returned /\ connectOk /\ timedOut) =>
        /\ readRan
        /\ client.stops \in {1, 2}
        /\ idleAtRead => client.stops = 2
        /\ ~client.conn

C3_Witness ==
    Returned /\ connectOk /\ timedOut /\ idleAtRead /\ client.stops = 2
        /\ client.reads = 0

\* The call has returned after a successful connect and the peer's answer
\* began with the given line.
AnsweredWith(line) == Returned /\ connectOk /\ StartsWith(stream, line)

\* C4 as stated: every answer whose first line is "200 OK\n" makes
\* http_request return 200.
C4_Always200 == AnsweredWith(Ok200Line) => ret = 200

\* C4 amended: for an answer whose first line is "200 OK\n", http_request
\* returns 200 when the header buffer captured at least the four bytes "200 "
\* (the token before the first space is parsed directly), and 0 when an idle
\* gap or the timeout ended the read before that.
C4_200WhenCaptured ==
    AnsweredWith(Ok200Line) =>
        ret = IF Len(header_str) >= 4 THEN 200 ELSE 0

\* The whole line and a byte after it were captured.
C4_Witness ==
    AnsweredWith(Ok200Line) /\ Len(header_str) > Len(Ok200Line) /\ ret = 200

C6_NoSpaceIsZero ==
    (Returned /\ connectOk /\ \A i \in 1..Len(header_str) : header_str[i] # " ")
        => ret = 0

\* The buffer is full, the answer's first space lies beyond it.
C6_Witness ==
    /\ Returned /\ connectOk /\ ret = 0
    /\ Len(header_str) = _HEADER_LEN
    /\ \A i \in 1..Len(header_str) : header_str[i] # " "
    /\ indexOf(stream, " ") >= _HEADER_LEN
    /\ client.reads > _HEADER_LEN

\* The lines of a message: the runs of bytes between newlines.
RECURSIVE SplitLines(_, _)
SplitLines(s, cur) ==
    IF s = <<>> THEN (IF cur = <<>> THEN <<>> ELSE <<cur>>)
    ELSE IF Head(s) = "\n" THEN <<cur>> \o SplitLines(Tail(s), <<>>)
    ELSE SplitLines(Tail(s), Append(cur, Head(s)))

Lines(s) == SplitLines(s, <<>>)

\* d is the decimal numeral of n, without sign or leading zeros.
IsDecimalOf(d, n) ==
    /\ d # <<>>
    /\ \A i \in 1..Len(d) : IsDigit(d[i])
    /\ Len(d) > 1 => d[1] # "0"
    /\ toInt(d) = n

Formatted == fout # <<>>

ContentLengthLines(msg) ==
    {i \in 1..Len(Lines(msg)) : StartsWith(Lines(msg)[i], ContentLengthPrefix)}

\* C7: for a method other than "GET" the formatted request has exactly one
\* line "Content-Length: <n>", right after the Host line, n the decimal byte
\* length of the body; for "GET" it has no Content-Length line.
C7_ContentLength ==
    Formatted =>
        IF fin.method = GET
        THEN ContentLengthLines(fout) = {}
        ELSE /\ ContentLengthLines(fout) = {3}
             /\ Lines(fout)[2] = HostPrefix \o fin.base_url
             /\ IsDecimalOf(SubSeq(Lines(fout)[3], Len(ContentLengthPrefix) + 1,
                                   Len(Lines(fout)[3])),
                            Len(fin.data))

\* A body of a two-digit length under POST, with extra headers.
C7_Witness ==
    /\ Formatted /\ fin.method = POST /\ Len(fin.data) >= 10
    /\ fin.additional_headers # <<>>
    /\ ContentLengthLines(fout) = {3}

\* C8: for "GET" the formatted request starts with the request line
\* "GET <path>?<payload> HTTP/1.1\n" and holds no body segment: after the
\* Host line come the extra headers and nothing else.
C8_GetQueryNoBody ==
    (Formatted /\ fin.method = GET) =>
        fout = <<"G", "E", "T", " ">> \o fin.path \o <<"?">> \o fin.data
                 \o <<" ", "H", "T", "T", "P", "/", "1", ".", "1", "\n">>
                 \o <<"H", "o", "s", "t", ":", " ">> \o fin.base_url \o <<"\n">>
                 \o fin.additional_headers

C8_Witness ==
    /\ Formatted /\ fin.method = GET /\ fin.data # <<>>
    /\ fin.additional_headers # <<>>
    /\ StartsWith(fout, <<"G", "E", "T", " ">> \o fin.path \o <<"?">> \o fin.data)

\* C9: the value http_request returns is never negative.
C9_NeverNegative == Returned => ret >= 0

\* C10 as stated: a call whose wait phase ended by timeout returns 0,
\* whenever bytes arrive afterwards.
C10_TimeoutReturnsZero == (Returned /\ connectOk /\ timedOut) => ret = 0

\* C10 amended: a call whose wait phase ended by timeout returns 0 when no
\* byte is available at the first poll of the read phase, and then reads no
\* byte, whatever arrives later; bytes that arrive between the timeout and
\* that poll are read and parsed as in any other call.
C10_TimeoutThenIdleReturnsZero ==
    (Returned /\ connectOk /\ timedOut /\ ~byteAtRead) =>
        (ret = 0 /\ client.reads = 0)

\* The peer had an answer to send, it was cut off by the close.
C10_Witness ==
    /\ Returned /\ connectOk /\ timedOut /\ ~byteAtRead /\ ret = 0
    /\ idleAtRead /\ StartsWith(stream, Ok200Line)

\* C11: REQUEST_SETUP of setup() returns only after a connect call returned
\* true and after connected() was seen true; at every evaluation of the retry
\* loop each failed connect so far has been followed by one delay of 1000 ms,
\* and during that delay all but the last one have.
C11_SetupRetriesUntilConnected ==
    /\ (where = "setup" /\ mpc = "ready") =>
           (pubsub.oks >= 1 /\ pubsub.sawConnected)
    /\ mpc = "cond" => pubsub.slept = 1000 * pubsub.fails
    /\ mpc = "delay" => pubsub.slept = 1000 * (pubsub.fails - 1)
    /\ mpc = "ready" => pubsub.slept = 1000 * pubsub.fails

\* Setup returned after two failed attempts.
C11_Witness ==
    /\ where = "setup" /\ mpc = "ready"
    /\ pubsub.fails = 2 /\ pubsub.slept = 2000 /\ pubsub.oks >= 1

\* C12: REQUEST_SEND makes exactly one publish call, with the configured path
\* as topic and the data as payload, makes no connect attempt, makes no
\* second publish when publish returned false, and yields publish's boolean.
C12_SendIsOnePublish ==
    mpc = "sent" =>
        /\ pubsub.published = <<[topic |-> <<"p">>, payload |-> mdata]>>
        /\ pubsub.attempts = 0
        /\ is_ok = pubsub.lastPublish

\* A publish that failed on a connected client.
C12_Witness ==
    /\ mpc = "sent" /\ ~is_ok /\ pubsub.connected /\ mdata # <<>>
    /\ Len(pubsub.published) = 1

\* C18: in every REQUEST_LOOP the retry loop is left before client.loop() is
\* called: loop() is not called while the retry loop runs, it has been called
\* exactly once when REQUEST_LOOP is over, connected() was seen true before
\* it, and no connect attempt was made on a client that was connected.
C18_LoopReconnectsThenMaintains ==
    where = "loop" =>
        /\ mpc \in {"cond", "delay", "maintain"} => pubsub.loops = 0
        /\ mpc \in {"maintain", "send"} => pubsub.sawConnected
        /\ mpc = "send" => pubsub.loops = 1
        /\ ~pubsub.attemptedConnected

\* REQUEST_LOOP on a client that was connected all along: no connect attempt.
C18_Witness ==
    /\ where = "loop" /\ mpc = "send" /\ pubsub.loops = 1
    /\ pubsub.attempts = 0 /\ pubsub.sawConnected

EndsWith(s, t) == Len(s) >= Len(t) /\ SubSeq(s, Len(s) - Len(t) + 1, Len(s)) = t

\* C13: for a method other than "GET" and any extra headers, the formatted
\* request ends with a blank line (two consecutive newlines) followed by the
\* body.
C13_BlankLineBeforeBody ==
    (Formatted /\ fin.method # GET) =>
        EndsWith(fout, <<"\n", "\n">> \o fin.data)

HasByte(s, c) == \E i \in 1..Len(s) : s[i] = c

\* C14 as stated: every write of an HTTP send ends with a newline and holds
\* no carriage return (method, headers and body hold none).
C14_NoCarriageReturn ==
    \A i \in 1..Len(client.out) :
        /\ EndsWith(client.out[i], <<"\n">>)
        /\ ~HasByte(client.out[i], "\r")

\* C14 amended: the bytes written by an HTTP send are the formatted request,
\* which holds no carriage return when method, headers and body hold none,
\* followed by the "\r\n" of println: the write ends with a newline and its
\* only carriage return is the byte before that newline.
C14_OnlyPrintlnCarriageReturn ==
    \A i \in 1..Len(client.out) :
        LET w == client.out[i]
        IN  /\ Len(w) >= 2
            /\ w[Len(w)] = "\n"
            /\ w[Len(w) - 1] = "\r"
            /\ ~HasByte(SubSeq(w, 1, Len(w) - 2), "\r")
            /\ StartsWith(w, args.method \o <<" ", "/", "p">>)

C14_Witness ==
    /\ pc = "wait" /\ args.method = POST /\ Len(client.out) = 1
    /\ EndsWith(client.out[1], <<"\n", "a", "=", "1", "\r", "\n">>)

\* C15: the wait phase ends: a pass through the wait loop is made only while
\* no byte is available and the first poll that finds a byte ends the wait
\* without timeout; there are never more than REQUEST_REPLY_WAIT + 2 passes in
\* a call, whatever _wait was at its start, and the wait is over after that
\* many; a call that timed out has gone on to the read phase.
C15_WaitPhaseEnds ==
    /\ [](polls <= REQUEST_REPLY_WAIT + 2)
    /\ [](pc = "wait" => polls <= REQUEST_REPLY_WAIT + 1)
    /\ [](timedOut => pc \in {"read", "done"})
    /\ []((Returned /\ timedOut) => readRan)
    /\ [][polls' > polls => (pc = "wait" /\ available(client) = 0)]_vars
    /\ [][(pc = "wait" /\ available(client) # 0 /\ pc' # pc) =>
             (pc' = "read" /\ ~timedOut' /\ polls' = polls /\ _wait' = _wait)]_vars

\* A timeout after the longest wait, in a call that went on and returned.
C15_Witness ==
    Returned /\ connectOk /\ timedOut /\ polls = REQUEST_REPLY_WAIT + 2 /\ readRan

\* C20: a wait that ended by timeout has made at least REQUEST_REPLY_WAIT
\* passes, each a poll that found no byte, in that same call, whatever earlier
\* calls left in _wait.
C20_FullWaitBeforeTimeout == timedOut => polls >= REQUEST_REPLY_WAIT

Min(a, b) == IF a < b THEN a ELSE b

\* C16: once the read loop has found the Transport connected with no byte,
\* the Transport is closed, no byte is read after that in the call, and the
\* captured header holds only bytes read before that idle gap, also when the
\* status line had arrived only in part.
C16_IdleGapEndsRead ==
    gapReads # -1 =>
        /\ client.stops >= 1
        /\ ~client.conn
        /\ available(client) = 0
        /\ client.reads = gapReads
        /\ header_str = SubSeq(stream, 1, Min(gapReads, 49))

\* The gap came after "20" of "200 OK\n".
C16_Witness ==
    /\ Returned /\ gapReads = 2 /\ StartsWith(stream, Ok200Line)
    /\ header_str = <<"2", "0">> /\ ret = 0

\* C17: the header index never exceeds 49, and the buffer holds the first
\* min(49, k) of the k bytes read so far, in arrival order; bytes read with
\* the buffer full are taken from the Transport and not stored.
C17_BoundedCapture ==
    /\ Len(header_str) <= 49
    /\ pc \in {"read", "done"} =>
           header_str = SubSeq(stream, 1, Min(49, client.reads))

\* The read went on after the buffer was full.
C17_Witness ==
    /\ Returned /\ client.reads > 49 + 1 /\ Len(header_str) = 49
    /\ header_str = SubSeq(stream, 1, 49)

IsCallOrder(log) ==
    /\ Len(log) >= 2
    /\ log[1] = "connect"
    /\ log[2] = "write"
    /\ \A i \in 3..Len(log) :
          /\ log[i] \in {"read", "stop"}
          /\ log[i] = "stop" => \A j \in i..Len(log) : log[j] = "stop"

\* C19: a call of http_request makes one connect; when it succeeded, one
\* write of the whole request follows, then the wait, then the reads, then the
\* closes: nothing is read or closed before the wait is over, nothing is read
\* after a close, and connect and write are not repeated.
C19_OneAttemptInOrder ==
    pc # "idle" =>
        /\ client.connects = 1
        /\ ~connectOk => client.log = <<"connect">>
        /\ connectOk =>
              /\ IsCallOrder(client.log)
              /\ client.out = <<println(FormatRequest(args.data, args.method,
                                   REQUEST_URL, SlashPath, REQUEST_HEADERS))>>
              /\ Len(client.log) = 2 + client.reads + client.stops
              /\ pc = "wait" => Len(client.log) = 2
              /\ Returned => client.log[Len(client.log)] = "stop"

C19_Witness ==
    /\ Returned /\ connectOk /\ client.reads >= 2 /\ client.stops = 2
    /\ polls >= 1 /\ IsCallOrder(client.log)

\* The status line of an answer has the form "DDD reason", DDD in 100..999.
IsBareStatusLine(s) ==
    /\ Len(s) >= 4
    /\ IsDigit(s[1]) /\ s[1] # "0" /\ IsDigit(s[2]) /\ IsDigit(s[3])
    /\ s[4] = " "

\* The status line of an answer has the form "HTTP/x.y DDD reason", DDD in
\* 100..999.
IsVersionStatusLine(s) ==
    /\ Len(s) >= 13
    /\ SubSeq(s, 1, 5) = <<"H", "T", "T", "P", "/">>
    /\ IsDigit(s[6]) /\ s[7] = "." /\ IsDigit(s[8]) /\ s[9] = " "
    /\ IsDigit(s[10]) /\ s[10] # "0" /\ IsDigit(s[11]) /\ IsDigit(s[12])
    /\ s[13] = " "

\* The three-digit code DDD at bytes k+1..k+3 of s.
CodeAt(s, k) == 100 * DigitVal(s[k + 1]) + 10 * DigitVal(s[k + 2]) + DigitVal(s[k + 3])

\* C21: for an answer whose status line is "HTTP/x.y DDD reason" or
\* "DDD reason", whenever its bytes arrive, http_request returns 0 or DDD.
C21_ZeroOrSentCode ==
    (Returned /\ connectOk) =>
        /\ IsBareStatusLine(stream) => ret \in {0, CodeAt(stream, 0)}
        /\ IsVersionStatusLine(stream) => ret \in {0, CodeAt(stream, 9)}

\* Longest answer of the peer in the runs checked for termination.
MaxLiveLen == 8

\* A call of http_request answered by at most MaxLiveLen bytes.
CallLive == Call /\ Len(stream') <= MaxLiveLen

NextLive == CallLive \/ WaitPoll \/ ReadPoll \/ Deliver \/ PeerClose

\* The calling thread keeps running: a loop of http_request that can make a
\* pass makes it. The peer owes nothing: it may deliver or close at any time,
\* or never.
SpecLive == Init /\ [][NextLive]_vars /\ WF_vars(WaitPoll) /\ WF_vars(ReadPoll)

\* C22: the peer delivers finitely many bytes; every call of http_request
\* that has connected returns. The read loop takes at most one read per byte of
\* the answer, and it is left either because the Transport reports
\* disconnected (one close, after the loop) or after the first poll that finds
\* no byte (a close in the loop, a second after it).
C22_CallReturns ==
    /\ (pc \in {"wait", "read"}) ~> Returned
    /\ [](pc \in {"wait", "read", "done"} /\ connectOk => client.reads <= Len(stream))
    /\ [](Returned /\ connectOk =>
             /\ gapReads = -1 => client.stops = 1
             /\ gapReads # -1 => client.stops = 2 /\ client.reads = gapReads)

C22_Witness ==
    /\ Returned /\ connectOk /\ polls >= 1
    /\ client.reads >= 2 /\ gapReads = client.reads /\ client.reads < Len(stream)

====
